---- MODULE Spec2Model ----
(***************************************************************************)
(* Model of pkg/operator/ceph/cluster/monitoring.go (rook).                *)
(*                                                                         *)
(* One ClusterController c supervising one cluster.  The state is the      *)
(* cluster's monitoringChannels map, the channels it refers to, the        *)
(* watchersActivated gate, c.osdChecker, and a log of the side effects     *)
(* (goroutines launched, close() calls, StartWatch calls) in program       *)
(* order.  One action, Reconcile, is one whole call of                     *)
(* configureCephMonitoring with the cluster.Spec the caller installed.     *)
(*                                                                         *)
(* Specifications:                                                         *)
(*   Spec            serialized passes for one cluster, one pass a step    *)
(*   SpecResolver    isMonitoringDisabled on any identifier and snapshot   *)
(*   SpecMulti       one controller, two clusters, one pass a step         *)
(*   SpecStep        passes statement by statement by two callers, with    *)
(*                   or without the caller's lock                          *)
(*   SpecLockedFair  the locked passes of SpecStep under weak fairness     *)
(***************************************************************************)
EXTENDS Integers, Sequences, FiniteSets

\* Number of reconciliation passes explored.
MaxPasses == 5

\* Number of passes explored when two clusters are supervised.
MaxMultiPasses == 3

\* Number of passes explored statement by statement: with the lock, without it.
MaxLockedPasses == 4
MaxUnlockedPasses == 4

\* The goroutines that call configureCephMonitoring for the cluster.
Callers == {"g1", "g2"}

\* The namespaces of the supervised clusters.
Namespaces == {"ns-a", "ns-b"}

\* daemons := []string{"mon", "osd", "status"}
daemons == <<"mon", "osd", "status">>

Daemons == {daemons[i] : i \in 1..Len(daemons)}

\* cluster.stopCh, the cluster-level stop channel (made with the cluster).
clusterStopCh == 0

\* cluster.Spec.HealthCheck.DaemonHealth.{Monitor,ObjectStorageDaemon,Status}.Disabled
ClusterSpecs == [Monitor : BOOLEAN, ObjectStorageDaemon : BOOLEAN, Status : BOOLEAN]

VARIABLES
    cluster_Spec,              \* cluster.Spec as read by the last pass
    monitoringChannels, \* cluster.monitoringChannels: map daemon -> *clusterHealth
    chanClosed,         \* the channels on which close() has succeeded
    nextChan,           \* allocator of make(chan struct{})
    watchersActivated,  \* cluster.watchersActivated
    osdChecker,         \* c.osdChecker: 0 is nil, else the id of the monitor object
    events,             \* side effects in program order
    panicked,           \* the process died of a runtime panic
    specs               \* history: the snapshots of the passes made so far

vars == <<cluster_Spec, monitoringChannels, chanClosed, nextChan, watchersActivated,
          osdChecker, events, panicked, specs>>

\* A call of the resolver on its own: its arguments and what it returned.
VARIABLES
    query,              \* the arguments (daemon, clusterSpec) of the call
    answer              \* << >> before the call returns, then <<result>>

rvars == <<query, answer>>

\* One controller supervising several clusters: what each cluster owns, and
\* what the controller and the process hold for all of them.
VARIABLES
    clusterMap,         \* namespace -> the cluster: Spec, monitoringChannels,
                        \*   watchersActivated, its side effects, its pass count
    allClosed,          \* the closed channels of the process
    allocChan,          \* the process's allocator of make(chan struct{})
    ctrlOsdChecker,     \* c.osdChecker: the monitor object, with the namespace it was made for
    ctrlPanicked        \* the process died of a runtime panic

mvars == <<clusterMap, allClosed, allocChan, ctrlOsdChecker, ctrlPanicked>>

\* Passes for one cluster run statement by statement by several callers.
VARIABLES
    serialized,         \* the callers hold one exclusive lock per cluster around a pass
    shared,             \* the cluster, the controller and the heap, as the callers share them
    frames,             \* caller -> its position and locals (daemon index, isDisabled, health)
    passesStarted       \* number of passes started

cvars == <<serialized, shared, frames, passesStarted>>

----------------------------------------------------------------------------
(* Pure parts of the program, over a record st of the mutable state.       *)

\* Mutant: the osd case returns the mon flag.
isMonitoringDisabledCopyPaste(daemon, clusterSpec) ==
    CASE daemon = "mon"    -> clusterSpec.Monitor
      [] daemon = "osd"    -> clusterSpec.Monitor
      [] daemon = "status" -> clusterSpec.Status
      [] OTHER             -> FALSE

isMonitoringDisabled(daemon, clusterSpec) ==
    CASE daemon = "mon"    -> clusterSpec.Monitor
      [] daemon = "osd"    -> clusterSpec.ObjectStorageDaemon
      [] daemon = "status" -> clusterSpec.Status
      [] OTHER             -> FALSE

\* The function each daemon's goroutine runs.
checkerFn(daemon) ==
    CASE daemon = "mon"    -> "healthChecker.Check"
      [] daemon = "osd"    -> "osdChecker.Start"
      [] daemon = "status" -> "cephChecker.checkCephStatus"
      [] OTHER             -> "none"

\* go f(ch): the goroutine is handed the channel value read at the go statement.
goEvent(daemon, fn, ch) == [op |-> "go", daemon |-> daemon, fn |-> fn, ch |-> ch]

\* close(ch) on a closed channel is a runtime panic; the call is logged either way.
closeChan(st, daemon, ch) ==
    LET logged == [st EXCEPT !.events = Append(@, [op |-> "close", daemon |-> daemon,
                                                   fn |-> "close", ch |-> ch])]
    IN  IF ch \in st.chanClosed
        THEN [logged EXCEPT !.panicked = TRUE]
        ELSE [logged EXCEPT !.chanClosed = @ \cup {ch}]

\* Mutant: the goroutine is handed cluster.stopCh instead of the record's channel.
startMonitoringCheckClusterStop(st, daemon) ==
    LET started == [st EXCEPT !.events =
                        Append(@, goEvent(daemon, checkerFn(daemon), clusterStopCh))]
    IN  CASE daemon = "mon"    -> started
          [] daemon = "osd"    -> [started EXCEPT !.osdChecker = Len(started.events)]
          [] daemon = "status" -> started
          [] OTHER             -> st

startMonitoringCheck(st, daemon) ==
    LET ch == st.monitoringChannels[daemon].stopChan
        started == [st EXCEPT !.events = Append(@, goEvent(daemon, checkerFn(daemon), ch))]
    IN  CASE daemon = "mon"    -> started
          [] daemon = "osd"    -> [started EXCEPT !.osdChecker = Len(started.events)]
          [] daemon = "status" -> started
          [] OTHER             -> st

\* Mutant: the disabled branch clears the flag but forgets to close the channel.
runningCaseNoClose(st, daemon, isDisabled) ==
    IF isDisabled
    THEN [st EXCEPT !.monitoringChannels[daemon].monitoringRunning = FALSE]
    ELSE st

\* Mutant: the disabled branch closes cluster.stopCh instead of the record's channel.
runningCaseCloseClusterStop(st, daemon, isDisabled) ==
    IF isDisabled
    THEN LET c1 == closeChan(st, daemon, clusterStopCh)
         IN  IF c1.panicked THEN c1
             ELSE [c1 EXCEPT !.monitoringChannels[daemon].monitoringRunning = FALSE]
    ELSE st

\* Mutant: the enabled branch launches again although a goroutine is running.
runningCaseRelaunch(st, daemon, isDisabled) ==
    IF isDisabled
    THEN LET c1 == closeChan(st, daemon, st.monitoringChannels[daemon].stopChan)
         IN  IF c1.panicked THEN c1
             ELSE [c1 EXCEPT !.monitoringChannels[daemon].monitoringRunning = FALSE]
    ELSE startMonitoringCheck(st, daemon)

\* health.monitoringRunning is true.
runningCase(st, daemon, isDisabled) ==
    IF isDisabled
    THEN LET c1 == closeChan(st, daemon, st.monitoringChannels[daemon].stopChan)
         IN  IF c1.panicked THEN c1
             ELSE [c1 EXCEPT !.monitoringChannels[daemon].monitoringRunning = FALSE]
    ELSE st

\* Mutant: the flag is not set after the launch.
stoppedCaseNoFlag(st, daemon, isDisabled) ==
    IF ~isDisabled
    THEN startMonitoringCheck(st, daemon)
    ELSE st

\* The record exists and health.monitoringRunning is false.
stoppedCase(st, daemon, isDisabled) ==
    IF ~isDisabled
    THEN [startMonitoringCheck(st, daemon)
            EXCEPT !.monitoringChannels[daemon].monitoringRunning = TRUE]
    ELSE st

\* Mutant: the record is created (not running) also when the kind is disabled.
absentCaseAlwaysCreate(st, daemon, isDisabled) ==
    LET health  == [stopChan |-> st.nextChan, monitoringRunning |-> ~isDisabled]
        created == [st EXCEPT
                      !.monitoringChannels =
                          [k \in DOMAIN st.monitoringChannels \cup {daemon} |->
                              IF k = daemon THEN health ELSE st.monitoringChannels[k]],
                      !.nextChan = @ + 1]
    IN  IF ~isDisabled THEN startMonitoringCheck(created, daemon) ELSE created

\* The daemon is not in the map.
absentCase(st, daemon, isDisabled) ==
    IF ~isDisabled
    THEN LET health  == [stopChan |-> st.nextChan, monitoringRunning |-> TRUE]
             created == [st EXCEPT
                           !.monitoringChannels =
                               [k \in DOMAIN st.monitoringChannels \cup {daemon} |->
                                   IF k = daemon THEN health ELSE st.monitoringChannels[k]],
                           !.nextChan = @ + 1]
         IN  startMonitoringCheck(created, daemon)
    ELSE st

\* One iteration of the loop over daemons.
daemonStep(st, daemon, clusterSpec) ==
    LET isDisabled == isMonitoringDisabled(daemon, clusterSpec)
    IN  IF daemon \in DOMAIN st.monitoringChannels
        THEN IF st.monitoringChannels[daemon].monitoringRunning
             THEN runningCase(st, daemon, isDisabled)
             ELSE stoppedCase(st, daemon, isDisabled)
        ELSE absentCase(st, daemon, isDisabled)

\* for _, daemon := range daemons, from index i on; a panic ends the process.
RECURSIVE daemonLoop(_, _, _)
daemonLoop(st, i, clusterSpec) ==
    IF i > Len(daemons) \/ st.panicked
    THEN st
    ELSE daemonLoop(daemonStep(st, daemons[i], clusterSpec), i + 1, clusterSpec)

\* The loop run over the kinds in another order (a permutation of daemons).
RECURSIVE daemonLoopIn(_, _, _, _)
daemonLoopIn(order, st, i, clusterSpec) ==
    IF i > Len(order) \/ st.panicked
    THEN st
    ELSE daemonLoopIn(order, daemonStep(st, order[i], clusterSpec), i + 1, clusterSpec)

\* Mutant: the gate is never latched.
startWatchersNoLatch(st) ==
    IF st.watchersActivated = TRUE
    THEN st
    ELSE [st EXCEPT
            !.events = @ \o <<[op |-> "call", daemon |-> "-",
                               fn |-> "clientController.StartWatch", ch |-> clusterStopCh],
                              goEvent("-", "bucketController.Run", clusterStopCh)>>]

\* Mutant: the already-activated branch clears the gate.
startWatchersUnlatch(st) ==
    IF st.watchersActivated = TRUE
    THEN [st EXCEPT !.watchersActivated = FALSE]
    ELSE [st EXCEPT
            !.events = @ \o <<[op |-> "call", daemon |-> "-",
                               fn |-> "clientController.StartWatch", ch |-> clusterStopCh],
                              goEvent("-", "bucketController.Run", clusterStopCh)>>,
            !.watchersActivated = TRUE]

\* "Start watchers": the tail of configureCephMonitoring.
startWatchers(st) ==
    IF st.watchersActivated = TRUE
    THEN st
    ELSE [st EXCEPT
            !.events = @ \o <<[op |-> "call", daemon |-> "-",
                               fn |-> "clientController.StartWatch", ch |-> clusterStopCh],
                              goEvent("-", "bucketController.Run", clusterStopCh)>>,
            !.watchersActivated = TRUE]

\* Mutant: the pass returns before the watchers when nothing is monitored.
configureCephMonitoringEarlyReturn(st, clusterSpec) ==
    LET looped == daemonLoop(st, 1, clusterSpec)
    IN  IF looped.panicked \/ DOMAIN looped.monitoringChannels = {}
        THEN looped
        ELSE startWatchers(looped)

configureCephMonitoring(st, clusterSpec) ==
    LET looped == daemonLoop(st, 1, clusterSpec)
    IN  IF looped.panicked THEN looped ELSE startWatchers(looped)

----------------------------------------------------------------------------
(* The state machine.                                                      *)

State == [monitoringChannels |-> monitoringChannels,
          chanClosed         |-> chanClosed,
          nextChan           |-> nextChan,
          watchersActivated  |-> watchersActivated,
          osdChecker         |-> osdChecker,
          events             |-> events,
          panicked           |-> panicked]

\* A freshly constructed cluster: empty map, gate down, nothing launched.
ClusterInit ==
    /\ cluster_Spec = [Monitor |-> FALSE, ObjectStorageDaemon |-> FALSE, Status |-> FALSE]
    /\ monitoringChannels = << >>
    /\ chanClosed = {}
    /\ nextChan = 1
    /\ watchersActivated = FALSE
    /\ osdChecker = 0
    /\ events = << >>
    /\ panicked = FALSE
    /\ specs = << >>

\* The caller installs the snapshot clusterSpec and runs one serialized pass.
Reconcile(clusterSpec) ==
    /\ ~panicked
    /\ Len(specs) < MaxPasses
    /\ LET st == configureCephMonitoring(State, clusterSpec)
       IN  /\ cluster_Spec' = clusterSpec
           /\ monitoringChannels' = st.monitoringChannels
           /\ chanClosed' = st.chanClosed
           /\ nextChan' = st.nextChan
           /\ watchersActivated' = st.watchersActivated
           /\ osdChecker' = st.osdChecker
           /\ events' = st.events
           /\ panicked' = st.panicked
           /\ specs' = Append(specs, clusterSpec)

\* No resolver call of its own is under way.
ResolverIdle ==
    /\ query = [daemon |-> "", clusterSpec |-> cluster_Spec]
    /\ answer = << >>

\* The controller supervises no further cluster.
MultiIdle ==
    /\ clusterMap = << >>
    /\ allClosed = {}
    /\ allocChan = 1
    /\ ctrlOsdChecker = [Namespace |-> "", id |-> 0]
    /\ ctrlPanicked = FALSE

\* No caller runs a pass statement by statement.
idleFrame == [pc |-> "idle", i |-> 0, isDisabled |-> FALSE, health |-> 0]

StepIdle ==
    /\ serialized = TRUE
    /\ shared = << >>
    /\ frames = [g \in Callers |-> idleFrame]
    /\ passesStarted = 0

Init == ClusterInit /\ ResolverIdle /\ MultiIdle /\ StepIdle

Next ==
    \E clusterSpec \in ClusterSpecs :
        Reconcile(clusterSpec) /\ UNCHANGED <<rvars, mvars, cvars>>

Spec == Init /\ [][Next]_<<vars, rvars, mvars, cvars>>

----------------------------------------------------------------------------
(* The resolver called on any identifier and any snapshot.                 *)

\* The daemon identifiers tried: the three known kinds and some others.
DaemonIds == Daemons \cup {"mgr", "mds", "rgw", ""}

ResolverInit ==
    /\ ClusterInit
    /\ MultiIdle
    /\ StepIdle
    /\ query \in [daemon : DaemonIds, clusterSpec : ClusterSpecs]
    /\ answer = << >>

\* The call returns.
Resolve ==
    /\ answer = << >>
    /\ answer' = <<isMonitoringDisabled(query.daemon, query.clusterSpec)>>
    /\ UNCHANGED <<query, vars, mvars, cvars>>

\* The next call, with other arguments.
Ask(daemon, clusterSpec) ==
    /\ answer # << >>
    /\ query' = [daemon |-> daemon, clusterSpec |-> clusterSpec]
    /\ answer' = << >>
    /\ UNCHANGED <<vars, mvars, cvars>>

ResolverNext ==
    \/ Resolve
    \/ \E daemon \in DaemonIds, clusterSpec \in ClusterSpecs : Ask(daemon, clusterSpec)

SpecResolver == ResolverInit /\ [][ResolverNext]_<<vars, rvars, mvars, cvars>>

----------------------------------------------------------------------------
(* One controller, two clusters, serialized passes.                        *)

\* The state a pass for the cluster in namespace ns works on.
StateOf(ns) ==
    [monitoringChannels |-> clusterMap[ns].monitoringChannels,
     chanClosed         |-> allClosed,
     nextChan           |-> allocChan,
     watchersActivated  |-> clusterMap[ns].watchersActivated,
     osdChecker         |-> ctrlOsdChecker.id,
     events             |-> clusterMap[ns].events,
     panicked           |-> ctrlPanicked]

MultiInit ==
    /\ ClusterInit
    /\ ResolverIdle
    /\ StepIdle
    /\ clusterMap = [ns \in Namespaces |->
                        [Spec               |-> cluster_Spec,
                         monitoringChannels |-> << >>,
                         watchersActivated  |-> FALSE,
                         events             |-> << >>,
                         passes             |-> 0]]
    /\ allClosed = {}
    /\ allocChan = 1
    /\ ctrlOsdChecker = [Namespace |-> "", id |-> 0]
    /\ ctrlPanicked = FALSE

\* The pass launched the osd monitor: c.osdChecker was assigned (line 119).
launchedOsd(before, after) ==
    \E i \in (Len(before.events) + 1)..Len(after.events) :
        after.events[i].op = "go" /\ after.events[i].daemon = "osd"

\* One serialized pass of controller c for the cluster in namespace ns.
ReconcileCluster(ns, clusterSpec) ==
    /\ ~ctrlPanicked
    /\ clusterMap["ns-a"].passes + clusterMap["ns-b"].passes < MaxMultiPasses
    /\ LET st == configureCephMonitoring(StateOf(ns), clusterSpec)
       IN  /\ clusterMap' = [clusterMap EXCEPT ![ns] =
                                [Spec               |-> clusterSpec,
                                 monitoringChannels |-> st.monitoringChannels,
                                 watchersActivated  |-> st.watchersActivated,
                                 events             |-> st.events,
                                 passes             |-> @.passes + 1]]
           /\ allClosed' = st.chanClosed
           /\ allocChan' = st.nextChan
           /\ ctrlOsdChecker' = IF launchedOsd(StateOf(ns), st)
                                THEN [Namespace |-> ns, id |-> st.osdChecker]
                                ELSE ctrlOsdChecker
           /\ ctrlPanicked' = st.panicked
    /\ UNCHANGED <<vars, rvars, cvars>>

MultiNext ==
    \E ns \in Namespaces, clusterSpec \in ClusterSpecs : ReconcileCluster(ns, clusterSpec)

SpecMulti == MultiInit /\ [][MultiNext]_<<vars, rvars, mvars, cvars>>

----------------------------------------------------------------------------
(* configureCephMonitoring statement by statement, run by two callers for  *)
(* one cluster, with or without the caller's lock.  The map holds pointers *)
(* to clusterHealth objects on the heap; a frame's step names are the      *)
(* source lines they execute.                                              *)

\* The shared state with the map's pointers followed, as the operators above read it.
deref(sh) ==
    [monitoringChannels |-> [d \in DOMAIN sh.monitoringChannels |->
                                sh.heap[sh.monitoringChannels[d]]],
     chanClosed         |-> sh.chanClosed,
     nextChan           |-> sh.nextChan,
     watchersActivated  |-> sh.watchersActivated,
     osdChecker         |-> sh.osdChecker,
     events             |-> sh.events,
     panicked           |-> sh.panicked]

\* Mutant: a running, enabled kind is launched again.
branchRelaunch(ok, running, isDisabled) ==
    IF ok
    THEN IF running
         THEN (IF isDisabled THEN "L40" ELSE "L50")
         ELSE (IF ~isDisabled THEN "L50" ELSE "next")
    ELSE (IF ~isDisabled THEN "L62" ELSE "next")

\* The branch lines 35-61 take: the next statement, or on to the next daemon.
branch(ok, running, isDisabled) ==
    IF ok
    THEN IF running
         THEN (IF isDisabled THEN "L40" ELSE "next")
         ELSE (IF ~isDisabled THEN "L50" ELSE "next")
    ELSE (IF ~isDisabled THEN "L62" ELSE "next")

\* The frame moved to the top of the loop for the next daemon.
nextDaemon(f) == [f EXCEPT !.pc = "L34", !.i = @ + 1]

StepInit ==
    /\ ClusterInit
    /\ ResolverIdle
    /\ MultiIdle
    /\ serialized \in BOOLEAN
    /\ shared = [Spec               |-> cluster_Spec,
                 monitoringChannels |-> << >>,
                 heap               |-> << >>,
                 chanClosed         |-> {},
                 nextChan           |-> 1,
                 watchersActivated  |-> FALSE,
                 osdChecker         |-> 0,
                 events             |-> << >>,
                 panicked           |-> FALSE]
    /\ frames = [g \in Callers |-> idleFrame]
    /\ passesStarted = 0

\* Caller g installs the snapshot and enters configureCephMonitoring; with
\* the lock, only when no other pass is under way.
StartPass(g, clusterSpec) ==
    /\ ~shared.panicked
    /\ frames[g].pc = "idle"
    /\ passesStarted < (IF serialized THEN MaxLockedPasses ELSE MaxUnlockedPasses)
    /\ serialized => \A h \in Callers : frames[h].pc = "idle"
    /\ shared' = [shared EXCEPT !.Spec = clusterSpec]
    /\ frames' = [frames EXCEPT ![g] = [idleFrame EXCEPT !.pc = "L34", !.i = 1]]
    /\ passesStarted' = passesStarted + 1
    /\ UNCHANGED serialized

\* Lines 32-35: the loop head, the resolver and the map lookup.
Lookup(g) ==
    /\ ~shared.panicked
    /\ frames[g].pc = "L34"
    /\ LET f == frames[g]
       IN  IF f.i > Len(daemons)
           THEN frames' = [frames EXCEPT ![g].pc = "L74"]
           ELSE LET d == daemons[f.i]
                IN  frames' = [frames EXCEPT ![g] =
                        [f EXCEPT !.pc = "L36",
                                  !.isDisabled = isMonitoringDisabled(d, shared.Spec),
                                  !.health = IF d \in DOMAIN shared.monitoringChannels
                                             THEN shared.monitoringChannels[d] ELSE 0]]
    /\ UNCHANGED <<serialized, shared, passesStarted>>

\* Lines 35-61: ok, health.monitoringRunning and isDisabled choose the branch.
Branch(g) ==
    /\ ~shared.panicked
    /\ frames[g].pc = "L36"
    /\ LET f  == frames[g]
           ok == f.health # 0
           to == branch(ok, ok /\ shared.heap[f.health].monitoringRunning, f.isDisabled)
       IN  frames' = [frames EXCEPT ![g] =
                         IF to = "next" THEN nextDaemon(f) ELSE [f EXCEPT !.pc = to]]
    /\ UNCHANGED <<serialized, shared, passesStarted>>

\* Line 40: close(cluster.monitoringChannels[daemon].stopChan).
Close(g) ==
    /\ ~shared.panicked
    /\ frames[g].pc = "L40"
    /\ LET d  == daemons[frames[g].i]
           st == closeChan(deref(shared), d, shared.heap[shared.monitoringChannels[d]].stopChan)
       IN  shared' = [shared EXCEPT !.events = st.events,
                                    !.chanClosed = st.chanClosed,
                                    !.panicked = st.panicked]
    /\ frames' = [frames EXCEPT ![g].pc = "L42"]
    /\ UNCHANGED <<serialized, passesStarted>>

\* Line 42: cluster.monitoringChannels[daemon].monitoringRunning = false.
ClearFlag(g) ==
    /\ ~shared.panicked
    /\ frames[g].pc = "L42"
    /\ LET d == daemons[frames[g].i]
       IN  shared' = [shared EXCEPT
                        !.heap[shared.monitoringChannels[d]].monitoringRunning = FALSE]
    /\ frames' = [frames EXCEPT ![g] = nextDaemon(@)]
    /\ UNCHANGED <<serialized, passesStarted>>

\* Lines 50 and 68: c.startMonitoringCheck(cluster, daemon, cephUser).
Launch(g) ==
    /\ ~shared.panicked
    /\ frames[g].pc \in {"L50", "L68"}
    /\ LET st == startMonitoringCheck(deref(shared), daemons[frames[g].i])
       IN  shared' = [shared EXCEPT !.events = st.events, !.osdChecker = st.osdChecker]
    /\ frames' = [frames EXCEPT ![g] =
                      IF @.pc = "L50" THEN [@ EXCEPT !.pc = "L53"] ELSE nextDaemon(@)]
    /\ UNCHANGED <<serialized, passesStarted>>

\* Line 53: cluster.monitoringChannels[daemon].monitoringRunning = true.
SetFlag(g) ==
    /\ ~shared.panicked
    /\ frames[g].pc = "L53"
    /\ LET d == daemons[frames[g].i]
       IN  shared' = [shared EXCEPT
                        !.heap[shared.monitoringChannels[d]].monitoringRunning = TRUE]
    /\ frames' = [frames EXCEPT ![g] = nextDaemon(@)]
    /\ UNCHANGED <<serialized, passesStarted>>

\* Lines 62-65: a new clusterHealth with a new channel is stored in the map.
Create(g) ==
    /\ ~shared.panicked
    /\ frames[g].pc = "L62"
    /\ LET d == daemons[frames[g].i]
       IN  shared' = [shared EXCEPT
                        !.heap = Append(@, [stopChan |-> shared.nextChan,
                                            monitoringRunning |-> TRUE]),
                        !.monitoringChannels =
                            [k \in DOMAIN shared.monitoringChannels \cup {d} |->
                                IF k = d THEN Len(shared.heap) + 1
                                ELSE shared.monitoringChannels[k]],
                        !.nextChan = @ + 1]
    /\ frames' = [frames EXCEPT ![g].pc = "L68"]
    /\ UNCHANGED <<serialized, passesStarted>>

\* Lines 62-65 while another caller is about to touch the map: a data race
\* on a Go map, which the runtime may end with a fatal error.
MapRace(g) ==
    /\ ~shared.panicked
    /\ frames[g].pc = "L62"
    /\ \E h \in Callers \ {g} :
           frames[h].pc \in {"L34", "L40", "L42", "L50", "L53", "L62", "L68"}
    /\ shared' = [shared EXCEPT !.panicked = TRUE]
    /\ UNCHANGED <<serialized, frames, passesStarted>>

\* Lines 74-77: the gate; the pass returns when the watchers are activated.
Gate(g) ==
    /\ ~shared.panicked
    /\ frames[g].pc = "L74"
    /\ frames' = [frames EXCEPT ![g] =
                      IF shared.watchersActivated = TRUE THEN idleFrame
                      ELSE [@ EXCEPT !.pc = "L81"]]
    /\ UNCHANGED <<serialized, shared, passesStarted>>

\* Lines 80-81: clientController.StartWatch(cluster.stopCh).
StartWatch(g) ==
    /\ ~shared.panicked
    /\ frames[g].pc = "L81"
    /\ shared' = [shared EXCEPT !.events =
                      Append(@, [op |-> "call", daemon |-> "-",
                                 fn |-> "clientController.StartWatch", ch |-> clusterStopCh])]
    /\ frames' = [frames EXCEPT ![g].pc = "L90"]
    /\ UNCHANGED <<serialized, passesStarted>>

\* Lines 84-90: go bucketController.Run(cluster.stopCh).
RunBucket(g) ==
    /\ ~shared.panicked
    /\ frames[g].pc = "L90"
    /\ shared' = [shared EXCEPT !.events =
                      Append(@, goEvent("-", "bucketController.Run", clusterStopCh))]
    /\ frames' = [frames EXCEPT ![g].pc = "L93"]
    /\ UNCHANGED <<serialized, passesStarted>>

\* Line 93: cluster.watchersActivated = true, and the pass returns.
Latch(g) ==
    /\ ~shared.panicked
    /\ frames[g].pc = "L93"
    /\ shared' = [shared EXCEPT !.watchersActivated = TRUE]
    /\ frames' = [frames EXCEPT ![g] = idleFrame]
    /\ UNCHANGED <<serialized, passesStarted>>

\* A statement of the pass caller g is running.
PassStep(g) ==
    \/ Lookup(g) \/ Branch(g) \/ Close(g) \/ ClearFlag(g) \/ Launch(g) \/ SetFlag(g)
    \/ Create(g) \/ Gate(g) \/ StartWatch(g) \/ RunBucket(g) \/ Latch(g)

\* The snapshots the callers install: mon is enabled or disabled, osd and
\* status stay disabled.
StepSpecs == {clusterSpec \in ClusterSpecs :
                 clusterSpec.ObjectStorageDaemon = TRUE /\ clusterSpec.Status = TRUE}

\* The variables the statement-level passes leave alone.
unstepped == <<vars, rvars, mvars>>

StepNext ==
    \E g \in Callers :
        \/ \E clusterSpec \in StepSpecs : StartPass(g, clusterSpec) /\ UNCHANGED unstepped
        \/ Lookup(g) /\ UNCHANGED unstepped
        \/ Branch(g) /\ UNCHANGED unstepped
        \/ Close(g) /\ UNCHANGED unstepped
        \/ ClearFlag(g) /\ UNCHANGED unstepped
        \/ Launch(g) /\ UNCHANGED unstepped
        \/ SetFlag(g) /\ UNCHANGED unstepped
        \/ Create(g) /\ UNCHANGED unstepped
        \/ Gate(g) /\ UNCHANGED unstepped
        \/ StartWatch(g) /\ UNCHANGED unstepped
        \/ RunBucket(g) /\ UNCHANGED unstepped
        \/ Latch(g) /\ UNCHANGED unstepped
        \/ MapRace(g) /\ UNCHANGED unstepped

SpecStep == StepInit /\ [][StepNext]_<<vars, rvars, mvars, cvars>>

\* The passes under the caller's lock only, one after another.
LockedInit == StepInit /\ serialized = TRUE

LockedNext ==
    \E g \in Callers :
        \/ \E clusterSpec \in StepSpecs : StartPass(g, clusterSpec) /\ UNCHANGED unstepped
        \/ Lookup(g) /\ UNCHANGED unstepped
        \/ Branch(g) /\ UNCHANGED unstepped
        \/ Close(g) /\ UNCHANGED unstepped
        \/ ClearFlag(g) /\ UNCHANGED unstepped
        \/ Launch(g) /\ UNCHANGED unstepped
        \/ SetFlag(g) /\ UNCHANGED unstepped
        \/ Create(g) /\ UNCHANGED unstepped
        \/ Gate(g) /\ UNCHANGED unstepped
        \/ StartWatch(g) /\ UNCHANGED unstepped
        \/ RunBucket(g) /\ UNCHANGED unstepped
        \/ Latch(g) /\ UNCHANGED unstepped

\* The scheduler runs every goroutine that can take a step, so a pass under
\* way executes its next statement; no fairness is assumed of any task.
SpecLockedFair ==
    /\ LockedInit
    /\ [][LockedNext]_<<vars, rvars, mvars, cvars>>
    /\ \A g \in Callers : WF_cvars(PassStep(g))

----------------------------------------------------------------------------
(* Views of the log used by the properties.                                *)

\* The events of one daemon kind, in program order.
kindLog(d) == SelectSeq(events, LAMBDA e : e.daemon = d)

\* Positions in a log of the goroutine launches / the close() calls.
goIdx(log) == {i \in DOMAIN log : log[i].op = "go"}
closeIdx(log) == {i \in DOMAIN log : log[i].op = "close"}

\* How many events of the log are calls of fn.
countFn(fn) == Cardinality({i \in DOMAIN events : events[i].fn = fn})

\* The three states of a record.
Absent(mc, d)  == d \notin DOMAIN mc
Running(mc, d) == d \in DOMAIN mc /\ mc[d].monitoringRunning
Stopped(mc, d) == d \in DOMAIN mc /\ ~mc[d].monitoringRunning

\* The step is a reconciliation pass.
IsPass == specs' # specs

\* The events the pass appended, for kind d.
newEvents(d) == SelectSeq(SubSeq(events', Len(events) + 1, Len(events')),
                          LAMBDA e : e.daemon = d)

----------------------------------------------------------------------------
(* Properties.                                                             *)

\* C1: a pass that follows a pass with the same snapshot launches nothing,
\* closes nothing, creates no record and changes no running flag.
C1_Idempotent ==
    [][(IsPass /\ specs # << >> /\ cluster_Spec' = cluster_Spec)
         => /\ events' = events
            /\ chanClosed' = chanClosed
            /\ monitoringChannels' = monitoringChannels
            /\ panicked' = panicked]_vars

\* C1 witness: two passes in a row with one snapshot, over a registry holding
\* a running and a stopped record.
C1_Witness ==
    /\ Len(specs) >= 3
    /\ specs[Len(specs)] = specs[Len(specs) - 1]
    /\ \E d \in Daemons : Running(monitoringChannels, d)
    /\ \E d \in Daemons : Stopped(monitoringChannels, d)

\* C2: the channel handed to a task launched on re-enable (a launch of a kind
\* that was launched before) is fresh: it occurs in no earlier event of that
\* kind, and it is not closed when handed over.
C2_ReenableFreshChannel ==
    \A d \in Daemons :
        LET log == kindLog(d)
        IN  \A j \in goIdx(log) :
                (\E i \in goIdx(log) : i < j)
                    => \A i \in 1..(j - 1) : log[i].ch # log[j].ch

\* C3: close() is called at most once on each channel.
C3_ClosedAtMostOnce ==
    \A c \in 1..nextChan :
        Cardinality({i \in closeIdx(events) : events[i].ch = c}) <= 1

\* C4: for each kind at most one launched task holds a stop channel that is
\* still open.
C4_AtMostOneActive ==
    \A d \in Daemons :
        Cardinality({i \in goIdx(events) :
                        events[i].daemon = d /\ events[i].ch \notin chanClosed}) <= 1

\* C4 witness: a kind launched twice, and a kind with an active task.
C4_Witness ==
    /\ \E d \in Daemons : Cardinality(goIdx(kindLog(d))) >= 2
    /\ \E i \in goIdx(events) :
           events[i].daemon \in Daemons /\ events[i].ch \notin chanClosed

\* C5: between two consecutive launches of a kind there is exactly one
\* cancellation, on the channel handed over by the first launch.
C5_StopBeforeRestart ==
    \A d \in Daemons :
        LET log == kindLog(d)
        IN  \A i, j \in goIdx(log) :
                (i < j /\ ~\E k \in goIdx(log) : i < k /\ k < j)
                    => /\ j = i + 2
                       /\ log[i + 1].op = "close"
                       /\ log[i + 1].ch = log[i].ch

\* C5 witness: a kind that was launched, cancelled and launched again.
C5_Witness ==
    \E d \in Daemons :
        LET log == kindLog(d)
        IN  Len(log) >= 3 /\ log[1].op = "go" /\ log[2].op = "close" /\ log[3].op = "go"

\* C6: monitoringRunning is true exactly when the most recently launched task
\* of the kind holds a stop channel that is still open.
C6_FlagIsLiveness ==
    \A d \in Daemons :
        LET log == kindLog(d)
        IN  Running(monitoringChannels, d)
                <=> \E j \in goIdx(log) :
                        /\ \A k \in goIdx(log) : k <= j
                        /\ log[j].ch \notin chanClosed

\* C7: no pass ends in a panic.
C7_NoPanic == panicked = FALSE

\* C8: after any number N >= 1 of passes each auxiliary watcher has been
\* started exactly once, and none before the first pass.
C8_OneShotGate ==
    /\ specs = << >> =>
           /\ countFn("clientController.StartWatch") = 0
           /\ countFn("bucketController.Run") = 0
    /\ specs # << >> =>
           /\ countFn("clientController.StartWatch") = 1
           /\ countFn("bucketController.Run") = 1

\* C8 witness: several passes with different snapshots have run.
C8_Witness ==
    /\ Len(specs) >= 3
    /\ specs[1] # specs[2]
    /\ specs[2] # specs[3]
    /\ countFn("bucketController.Run") = 1

\* C9: watchersActivated starts false and never goes from true to false.
C9_GateIsLatch ==
    /\ watchersActivated = FALSE
    /\ [][watchersActivated = TRUE => watchersActivated' = TRUE]_vars

\* C9 witness: the gate is up and a later pass has run.
C9_Witness == watchersActivated = TRUE /\ Len(specs) >= 2

\* C10: each pass moves each record as the transition table says, and after a
\* completed pass a kind is running exactly when the snapshot enables it.
C10_Row(d) ==
    LET mc   == monitoringChannels
        mc2  == monitoringChannels'
        dis  == isMonitoringDisabled(d, cluster_Spec')
        new  == newEvents(d)
        noop == new = << >> /\ (d \in DOMAIN mc2 <=> d \in DOMAIN mc)
                            /\ (d \in DOMAIN mc => mc2[d] = mc[d])
        launched == /\ Len(new) = 1 /\ new[1].op = "go"
                    /\ Running(mc2, d)
                    /\ new[1].ch = mc2[d].stopChan
    IN  /\ (Absent(mc, d) /\ dis)   => noop
        /\ (Absent(mc, d) /\ ~dis)  => launched
        /\ (Running(mc, d) /\ dis)  =>
               /\ Len(new) = 1 /\ new[1].op = "close"
               /\ new[1].ch = mc[d].stopChan
               /\ mc[d].stopChan \in chanClosed'
               /\ Stopped(mc2, d)
        /\ (Running(mc, d) /\ ~dis) => noop
        /\ (Stopped(mc, d) /\ dis)  => noop
        /\ (Stopped(mc, d) /\ ~dis) => launched /\ mc2[d].stopChan = mc[d].stopChan
        /\ Running(mc2, d) <=> ~dis

C10_TransitionTable ==
    [][IsPass => (~panicked' /\ \A d \in Daemons : C10_Row(d))]_vars

\* What a state st holds for kind d, up to the identity of channels: the
\* record, whether its channel is closed, and the kind's launches and closes.
kindView(st, d) ==
    LET log == SelectSeq(st.events, LAMBDA e : e.daemon = d)
    IN  [present |-> d \in DOMAIN st.monitoringChannels,
         running |-> d \in DOMAIN st.monitoringChannels
                        /\ st.monitoringChannels[d].monitoringRunning,
         closed  |-> d \in DOMAIN st.monitoringChannels
                        /\ st.monitoringChannels[d].stopChan \in st.chanClosed,
         ops     |-> [i \in DOMAIN log |-> log[i].op]]

\* The orders in which the loop could process the kinds.
Orders == {o \in [1..Len(daemons) -> Daemons] :
              \A i, j \in 1..Len(daemons) : i # j => o[i] # o[j]}

\* C11: in a pass each kind ends as its own iteration alone would leave it
\* (so a Running kind that stays enabled is untouched), and processing the
\* kinds in any other order gives the same result for every kind.
C11_KindsIndependent ==
    [][IsPass =>
         \A d \in Daemons :
            /\ kindView(State', d) = kindView(daemonStep(State, d, cluster_Spec'), d)
            /\ (Running(monitoringChannels, d) /\ ~isMonitoringDisabled(d, cluster_Spec'))
                   => /\ newEvents(d) = << >>
                      /\ monitoringChannels'[d] = monitoringChannels[d]
            /\ \A o \in Orders :
                   LET other == daemonLoopIn(o, State, 1, cluster_Spec')
                   IN  /\ kindView(other, d) = kindView(State', d)
                       /\ other.panicked = panicked']_vars

\* C12: a record exists for a kind exactly when a task was launched for it,
\* and no pass removes a record.
C12_RecordIffLaunched ==
    /\ [](\A d \in Daemons : d \in DOMAIN monitoringChannels <=> goIdx(kindLog(d)) # {})
    /\ [][DOMAIN monitoringChannels \subseteq DOMAIN monitoringChannels']_vars

\* C12 witness: after a disable one kind is Stopped (record kept) while
\* another kind, never enabled, has no record.
C12_Witness ==
    /\ Len(specs) >= 2
    /\ \E d \in Daemons : Stopped(monitoringChannels, d)
    /\ \E d \in Daemons : Absent(monitoringChannels, d) /\ isMonitoringDisabled(d, cluster_Spec)

\* C16: the first pass starts both watchers and raises the gate whatever the
\* disabled flags are, and the loop's result for any snapshot is the same
\* with the gate up or down.
C16_GateIndependent ==
    /\ specs # << >> =>
           /\ watchersActivated = TRUE
           /\ \E i, j \in DOMAIN events :
                  /\ events[i].fn = "clientController.StartWatch"
                  /\ events[j].fn = "bucketController.Run"
    /\ \A s \in ClusterSpecs :
           LET up   == daemonLoop([State EXCEPT !.watchersActivated = TRUE], 1, s)
               down == daemonLoop([State EXCEPT !.watchersActivated = FALSE], 1, s)
           IN  [up EXCEPT !.watchersActivated = FALSE] = down

\* C16 witness: the first pass had all three kinds disabled and created no
\* record, and the gate is up.
C16_Witness ==
    /\ Len(specs) = 1
    /\ specs[1] = [Monitor |-> TRUE, ObjectStorageDaemon |-> TRUE, Status |-> TRUE]
    /\ DOMAIN monitoringChannels = {}
    /\ watchersActivated = TRUE

\* C18: every launched task holds the channel stored in its kind's record,
\* and every close() of a kind is on the channel of the kind's latest launch.
C18_LaunchHandsRecordChannel ==
    \A d \in Daemons :
        LET log == kindLog(d)
        IN  /\ \A j \in goIdx(log) :
                   d \in DOMAIN monitoringChannels
                       /\ log[j].ch = monitoringChannels[d].stopChan
            /\ \A k \in closeIdx(log) :
                   \E j \in goIdx(log) :
                       /\ j < k
                       /\ \A j2 \in goIdx(log) : j2 < k => j2 <= j
                       /\ log[k].ch = log[j].ch

\* C18 witness: a kind launched on creation, stopped and launched again.
C18_Witness ==
    \E d \in Daemons :
        LET log == kindLog(d)
        IN  /\ Len(log) = 3
            /\ log[2].op = "close"
            /\ log[3].op = "go"
            /\ Running(monitoringChannels, d)

\* C19: both watchers hold cluster.stopCh, which is no record's channel, and
\* no pass calls close() on it.
C19_WatchersOnClusterStop ==
    /\ \A i \in DOMAIN events :
           events[i].fn \in {"clientController.StartWatch", "bucketController.Run"}
               => events[i].ch = clusterStopCh
    /\ \A d \in DOMAIN monitoringChannels : monitoringChannels[d].stopChan # clusterStopCh
    /\ clusterStopCh \notin chanClosed
    /\ \A i \in closeIdx(events) : events[i].ch # clusterStopCh

\* C19 witness: the watchers run and every kind has been enabled and stopped.
C19_Witness ==
    /\ countFn("bucketController.Run") = 1
    /\ countFn("clientController.StartWatch") = 1
    /\ \A d \in Daemons : Stopped(monitoringChannels, d)

\* C13: the resolver returns a boolean: for mon, osd and status the kind's
\* own Disabled flag, and false for every other identifier.
C13_ResolverResult ==
    answer # << >> =>
        /\ answer[1] \in BOOLEAN
        /\ query.daemon = "mon"    => answer[1] = query.clusterSpec.Monitor
        /\ query.daemon = "osd"    => answer[1] = query.clusterSpec.ObjectStorageDaemon
        /\ query.daemon = "status" => answer[1] = query.clusterSpec.Status
        /\ query.daemon \notin Daemons => answer[1] = FALSE

\* C13 witness: an unknown identifier resolved against a snapshot that
\* disables every kind.
C13_Witness ==
    /\ answer = <<FALSE>>
    /\ query.daemon = "mgr"
    /\ query.clusterSpec = [Monitor |-> TRUE, ObjectStorageDaemon |-> TRUE, Status |-> TRUE]

\* The step is a pass for the cluster in namespace ns.
IsPassOf(ns) == clusterMap'[ns].passes # clusterMap[ns].passes

\* The channels of the records of the cluster in namespace ns.
channelsOf(cm, ns) ==
    {cm[ns].monitoringChannels[d].stopChan : d \in DOMAIN cm[ns].monitoringChannels}

\* C15: a pass for one cluster leaves every other cluster's records, flags,
\* gate and launched tasks as they were, its channels open or closed as they
\* were, and the controller's handle to its osd checker in place.
C15_EntitiesIsolated ==
    [][\A ns \in Namespaces :
          IsPassOf(ns) =>
             \A other \in Namespaces \ {ns} :
                /\ clusterMap'[other] = clusterMap[other]
                /\ \A ch \in channelsOf(clusterMap, other) :
                       ch \in allClosed' <=> ch \in allClosed
                /\ ctrlOsdChecker.Namespace = other => ctrlOsdChecker' = ctrlOsdChecker]_mvars

\* The events of one kind in the statement-level log.
stepLog(d) == SelectSeq(shared.events, LAMBDA e : e.daemon = d)

\* Two tasks launched for kind d in one enable transition: two launches with
\* no cancellation between them.
DoubleLaunch(d) ==
    \E i \in 1..(Len(stepLog(d)) - 1) :
        stepLog(d)[i].op = "go" /\ stepLog(d)[i + 1].op = "go"

\* One stop channel of kind d closed twice in one disable transition.
DoubleClose(d) ==
    \E i \in 1..(Len(stepLog(d)) - 1) :
        /\ stepLog(d)[i].op = "close" /\ stepLog(d)[i + 1].op = "close"
        /\ stepLog(d)[i].ch = stepLog(d)[i + 1].ch

\* C14: a double launch or a double close of a kind happens only when the
\* passes are not serialized; passes run under the lock reach neither.
C14_SerializationRequired ==
    (\E d \in Daemons : DoubleLaunch(d) \/ DoubleClose(d)) => serialized = FALSE

\* C14 witness: without the lock, one kind was launched twice in one enable
\* transition and one kind's channel was closed twice in one disable.
C14_Witness ==
    /\ serialized = FALSE
    /\ \E d \in Daemons : DoubleLaunch(d)
    /\ \E d \in Daemons : DoubleClose(d)

\* C17: every pass that has started reaches its end and returns.
C17_PassTerminates ==
    \A g \in Callers : (frames[g].pc # "idle") ~> (frames[g].pc = "idle")

====
